---- MODULE Spec2Model ----
(***************************************************************************)
(* Message processing pipeline of the ai-processor service.                *)
(*                                                                         *)
(* The repository holds two builds of the polling processor:               *)
(*   program = "poll"     src/index.js lines 1-241  (classify, qualify,    *)
(*                        extract, reply through the generation service)   *)
(*   program = "decrypt"  src/unnamed/part_000      (AES-GCM decryption,   *)
(*                        stubbed generation)                              *)
(* The store (Firestore) is modelled by three collections: raw (raw        *)
(* messages), leads and qleads (qualified leads).  Every await on a store  *)
(* call or on the generation service is one step of an attempt, so the     *)
(* attempts of the worker pool interleave exactly at the awaits.           *)
(***************************************************************************)
EXTENDS Integers, Sequences, FiniteSets, TLC

\* ---------------------------------------------------------------- bounds
NumMsgs == 2
MaxTasks == 2
\* rejections and stops still to come, where their number is bounded
MaxFaults == 1
\* requests of one generation call whose outcome the service decides
MaxRequests == 3

\* ------------------------------------------------------ program constants
CONCURRENCY_LIMIT == 5

Msgs == 1..NumMsgs
TaskIds == 1..MaxTasks

\* one document more than the worker pool admits at a time
BurstSize == CONCURRENCY_LIMIT + 1
\* the documents and attempts the state has room for
AllMsgs == 1..(IF NumMsgs > BurstSize THEN NumMsgs ELSE BurstSize)
AllTasks == 1..(IF MaxTasks > BurstSize THEN MaxTasks ELSE BurstSize)

NULL == "null"
\* userId of a raw message; NULL is a document without the field
UserIds == {NULL, "u1"}
\* message.from of the decrypt build
FromIds == {"u1", "u2"}
Names == {"n1", "n2"}
Emails == {"e1"}
\* the two priorities the code itself names: the fallback and the default
Priorities == {"Low", "High"}
Intents == {"visa"}
CourtesyReply == "Thank you. We'll get back shortly."
DecryptErrorReply == "Error processing your message due to a decryption issue."
StubUnavailableText == "The AI is currently unavailable."
StubQuoteText == "Thank you for your inquiry about a quote! I need to know your company name and project scope to provide an accurate estimate."
StubDefaultText == "Thank you for your message. I'm processing your request."
GeneratedReplies == {"generated reply"}

\* what the generation client hands back when it has no usable result
Unavailable == [unavailable |-> TRUE]

VARIABLES program, apiKey, raw, leads, qleads, tasks, faults, client

vars == <<program, apiKey, raw, leads, qleads, tasks, faults, client>>

\* -------------------------------------------------------------- payloads
\* body of a raw message.  The poll build reads message.body as plain text;
\* the decrypt build reads the triple encryptedBody/iv/authTag, of which the
\* model keeps the plaintext that was encrypted and whether the tag matches.
Payloads ==
    { [plain |-> "hello", tagOk |-> TRUE],
      [plain |-> "quote please", tagOk |-> TRUE],
      [plain |-> "", tagOk |-> TRUE],
      [plain |-> "hello", tagOk |-> FALSE] }

PayloadsOf(p) == IF p = "decrypt" THEN Payloads ELSE {[plain |-> "hello", tagOk |-> TRUE]}

\* mutant of decrypt: the auth tag is not verified
decryptIgnoreTag(payload) == payload.plain

decrypt(payload) == IF payload.tagOk THEN payload.plain ELSE NULL

\* !decryptedBody : null and the empty string are both falsy
Falsy(s) == s = NULL \/ s = ""

\* prompt.toLowerCase().includes("quote")
IncludesQuote(s) == s = "quote please"

generateAIResponse(prompt, key) ==
    IF ~key
    THEN [text |-> StubUnavailableText, isLead |-> FALSE, intent |-> "error"]
    ELSE IF IncludesQuote(prompt)
         THEN [text |-> StubQuoteText, isLead |-> TRUE, intent |-> "quote_request"]
         ELSE [text |-> StubDefaultText, isLead |-> TRUE, intent |-> "general_inquiry"]

\* ------------------------------------------------------------ call-sites
\* callGeminiAPI(payload) || default
classifyMessage(resp) ==
    IF resp = Unavailable THEN [isLead |-> FALSE, intent |-> "Unknown"] ELSE resp

\* mutant of qualifyLead: the || default is missing
qualifyLeadNoFallback(resp) == resp

qualifyLead(resp) ==
    IF resp = Unavailable THEN [isQualified |-> FALSE, priority |-> "Low"] ELSE resp

extractData(resp) ==
    IF resp = Unavailable THEN [name |-> NULL, email |-> NULL] ELSE resp

\* text || "Thank you. We'll get back shortly." ; "" stands for no text
generateReply(text) == IF text = "" THEN CourtesyReply ELSE text

\* mutant of OrElse: the operands of || are swapped
OrElseSwapped(a, b) == IF b = NULL THEN a ELSE b

\* a || b on nullable strings
OrElse(a, b) == IF a = NULL THEN b ELSE a

\* the value the call-site hands to processMessage
CallSiteDefault ==
    /\ client.pc = "returned" /\ client.site # "reply"
    /\ client' = [client EXCEPT !.pc = "done", !.value =
                    CASE client.site = "classify" -> classifyMessage(client.result)
                      [] client.site = "qualify" -> qualifyLead(client.result)
                      [] client.site = "extract" -> extractData(client.result)]
    /\ UNCHANGED <<program, apiKey, raw, leads, qleads, tasks, faults>>

\* generateReply sends one request with fetchWithTimeout, outside retry and
\* whatever the key is; a throw is caught and gives the courtesy text, and
\* the status of the response is not looked at
generateReplyCall ==
    /\ client.pc = "idle" /\ client.site = "reply"
    /\ LET o == Head(client.feed) IN
       client' = [client EXCEPT !.pc = "done", !.feed = Tail(@), !.requests = Append(@, o),
                                !.result = IF o = "value" THEN "generated reply" ELSE Unavailable,
                                !.value = generateReply(IF o = "value" THEN "generated reply" ELSE "")]
    /\ UNCHANGED <<program, apiKey, raw, leads, qleads, tasks, faults>>

\* ------------------------------------------------------ generation client
\* One call of a call-site, request by request.  feed holds what the service
\* does with the successive requests of the call.
RequestOutcomes == {"transport error", "timeout", "non-success status", "no text", "invalid JSON", "value"}

\* fetch rejects (also on abort by the timer of fetchWithTimeout), or the
\* status check throws: the exception reaches the catch of retry
Throws(o) == o \in {"transport error", "timeout", "non-success status"}

CallSites == {"classify", "qualify", "extract", "reply"}

ParsedValue(site) ==
    CASE site = "classify" -> [isLead |-> TRUE, intent |-> "visa"]
      [] site = "qualify" -> [isQualified |-> TRUE, priority |-> "High"]
      [] site = "extract" -> [name |-> "n1", email |-> "e1"]

NoCall ==
    [pc |-> "idle", site |-> NULL, feed |-> <<>>, retries |-> 0, delayMs |-> 0,
     requests |-> <<>>, delays |-> <<>>, result |-> NULL, value |-> NULL]

\* if (!GEMINI_API_KEY) return null; return retry(fn) with retries = 2,
\* delayMs = 500
callGeminiAPI ==
    /\ client.pc = "idle" /\ client.site \in {"classify", "qualify", "extract"}
    /\ client' = IF ~apiKey
                 THEN [client EXCEPT !.pc = "returned", !.result = Unavailable]
                 ELSE [client EXCEPT !.pc = "request", !.retries = 2, !.delayMs = 500]
    /\ UNCHANGED <<program, apiKey, raw, leads, qleads, tasks, faults>>

\* mutant of retry: the last failure is thrown on to the caller
retryRethrow ==
    /\ client.pc = "request"
    /\ LET o == Head(client.feed)
           c == [client EXCEPT !.feed = Tail(@), !.requests = Append(@, o)]
       IN client' =
            IF Throws(o)
            THEN (IF client.retries > 0 THEN [c EXCEPT !.pc = "delay"]
                  ELSE [c EXCEPT !.pc = "raised"])
            ELSE [c EXCEPT !.pc = "returned",
                           !.result = IF o = "value" THEN ParsedValue(client.site) ELSE Unavailable]
    /\ UNCHANGED <<program, apiKey, raw, leads, qleads, tasks, faults>>

\* return await fn(): one request.  A throw is caught: with retries left the
\* call waits and tries again, else it returns null.  Missing text and text
\* that is not JSON return null from fn without a throw.
retry ==
    /\ client.pc = "request"
    /\ LET o == Head(client.feed)
           c == [client EXCEPT !.feed = Tail(@), !.requests = Append(@, o)]
       IN client' =
            IF Throws(o)
            THEN (IF client.retries > 0 THEN [c EXCEPT !.pc = "delay"]
                  ELSE [c EXCEPT !.pc = "returned", !.result = Unavailable])
            ELSE [c EXCEPT !.pc = "returned",
                           !.result = IF o = "value" THEN ParsedValue(client.site) ELSE Unavailable]
    /\ UNCHANGED <<program, apiKey, raw, leads, qleads, tasks, faults>>

\* await delay(delayMs); return retry(fn, retries - 1, delayMs * 2)
delay ==
    /\ client.pc = "delay"
    /\ client' = [client EXCEPT !.pc = "request", !.delays = Append(@, client.delayMs),
                                !.retries = @ - 1, !.delayMs = @ * 2]
    /\ UNCHANGED <<program, apiKey, raw, leads, qleads, tasks, faults>>

\* ----------------------------------------------------------------- store
NoRaw ==
    [exists |-> FALSE, userId |-> NULL, payload |-> [plain |-> "hello", tagOk |-> TRUE],
     processed |-> FALSE, processing |-> FALSE,
     hasDerived |-> FALSE, isLead |-> FALSE, isQualified |-> FALSE,
     priority |-> NULL, autoReplyText |-> NULL, messageCount |-> 0]

\* poll build: message.userId || "unknown_user" ; decrypt build: message.from
\* (kept in the same field of the model)
UserKey(m) ==
    IF program = "decrypt"
    THEN raw[m].userId
    ELSE (IF raw[m].userId = NULL THEN "unknown_user" ELSE raw[m].userId)

Matching(coll, key) == {i \in 1..Len(coll) : coll[i].key = key}

Max(S) == CHOOSE x \in S : \A y \in S : y <= x

\* where(userId == key).orderBy(timestamp, desc).limit(1) : the document
\* created last; 0 when the snapshot is empty
LatestLead(key) == IF Matching(leads, key) = {} THEN 0 ELSE Max(Matching(leads, key))

\* where(userId == key).limit(1) without an order: any matching document
QualifiedCandidates(key) == IF Matching(qleads, key) = {} THEN {0} ELSE Matching(qleads, key)

\* ----------------------------------------------------------------- tasks
NoTask ==
    [pc |-> "none", msg |-> 0, snapProcessing |-> FALSE, key |-> NULL,
     isLead |-> FALSE, intent |-> NULL, leadRef |-> 0, totalMessages |-> 1,
     qlRef |-> 0, name |-> NULL, email |-> NULL, isQualified |-> FALSE,
     priority |-> "Low", autoReply |-> NULL, down |-> {},
     claimed |-> FALSE, prompt |-> NULL, calls |-> {},
     missingName |-> TRUE, missingEmail |-> TRUE]

DoneTask == [NoTask EXCEPT !.pc = "done"]

Running == {t \in TaskIds : tasks[t].pc \notin {"none", "queued", "done"}}
Unused == {t \in TaskIds : tasks[t].pc = "none"}

\* The store either is empty or already knows sender "u1" from an earlier
\* conversation that qualified (one lead, one qualified lead whose email, and
\* possibly name, has not been collected yet).
KnownLead == [key |-> "u1", intent |-> "visa", messageCount |-> 1]
KnownQualified(n) == [key |-> "u1", name |-> n, email |-> NULL, priority |-> "High", messageCount |-> 1]

InitStore ==
    /\ program \in {"poll", "decrypt"}
    /\ apiKey \in BOOLEAN
    /\ raw = [m \in AllMsgs |-> NoRaw]
    /\ \/ leads = <<>> /\ qleads = <<>>
       \/ /\ program = "poll"
          /\ leads = <<KnownLead>>
          /\ \E n \in {NULL, "n1"} : qleads = <<KnownQualified(n)>>
    /\ tasks = [t \in AllTasks |-> NoTask]
    /\ client = NoCall

\* faults < 0: the environment sets no bound on the calls the store rejects
Init == InitStore /\ faults = -1

\* ------------------------------------------------------ external producer
\* a raw message is created with processed = false, processing = false
ProduceIn(M) ==
    /\ \E m \in M, u \in (IF program = "decrypt" THEN FromIds ELSE UserIds), p \in PayloadsOf(program) :
        /\ ~raw[m].exists
        /\ m = 1 => u = "u1"
        /\ \A k \in M : k < m => raw[k].exists
        /\ raw' = [raw EXCEPT ![m] = [NoRaw EXCEPT !.exists = TRUE, !.userId = u, !.payload = p]]
    /\ UNCHANGED <<client, program, apiKey, leads, qleads, tasks, faults>>

Produce == ProduceIn(Msgs)

\* ------------------------------------------------------------- dispatcher
\* where(processed == false).where(processing == false)
Eligible == {m \in Msgs : raw[m].exists /\ ~raw[m].processed /\ ~raw[m].processing}

RECURSIVE Enqueue(_, _)
\* snapshot.docs.forEach(doc => limit(() => processMessage(doc)))
Enqueue(ts, S) ==
    IF S = {} THEN ts
    ELSE LET m == CHOOSE x \in S : \A y \in S : x <= y
             t == CHOOSE x \in TaskIds : ts[x].pc = "none" /\ \A y \in TaskIds : ts[y].pc = "none" => x <= y
         IN Enqueue([ts EXCEPT ![t] = [NoTask EXCEPT !.pc = "queued", !.msg = m,
                                         !.snapProcessing = raw[m].processing,
                                         !.key = UserKey(m)]],
                    S \ {m})

Min(a, b) == IF a <= b THEN a ELSE b

\* the documents one poll fetches; the decrypt build adds
\* .limit(CONCURRENCY_LIMIT) to the query
Fetched ==
    IF program = "poll" THEN {Eligible}
    ELSE {S \in SUBSET Eligible : Cardinality(S) = Min(Cardinality(Eligible), CONCURRENCY_LIMIT)}

\* Every store call either succeeds or rejects; F is the set of outcomes the
\* store may produce (TRUE: the call succeeds).  Where the environment bounds
\* the rejections (faults >= 0), a rejection uses one up.
Charge(ok) ==
    /\ ok \/ faults # 0
    /\ faults' = IF ok \/ faults < 0 THEN faults ELSE faults - 1

\* A rejected query rejects pollMessages itself, which nothing awaits: the
\* unhandledRejection handler logs it and the timer goes on.
pollMessages(F) ==
    \E ok \in F :
        Charge(ok) /\
        IF ok
        THEN /\ \E S \in Fetched :
                /\ S # {}
                /\ Cardinality(S) <= Cardinality(Unused)
                /\ tasks' = Enqueue(tasks, S)
             /\ UNCHANGED <<client, program, apiKey, raw, leads, qleads>>
        ELSE UNCHANGED <<client, program, apiKey, raw, leads, qleads, tasks>>

\* --------------------------------------------------------- processMessage
\* p-limit starts queued functions in the order they were queued
NextQueued(t) ==
    /\ tasks[t].pc = "queued"
    /\ \A u \in TaskIds : tasks[u].pc = "queued" => t <= u
    /\ Cardinality(Running) < CONCURRENCY_LIMIT

\* outcomes of one call of the generation client
ClassifyResponses ==
    {Unavailable} \cup
    (IF apiKey THEN {[isLead |-> b, intent |-> i] : b \in BOOLEAN, i \in Intents} ELSE {})

QualifyResponses ==
    {Unavailable} \cup
    (IF apiKey THEN {[isQualified |-> b, priority |-> p] : b \in BOOLEAN, p \in Priorities} ELSE {})

ExtractResponses ==
    {Unavailable} \cup
    (IF apiKey THEN {[name |-> n, email |-> e] : n \in Names \cup {NULL}, e \in Emails \cup {NULL}} ELSE {})

ReplyResponses == {""} \cup (IF apiKey THEN GeneratedReplies ELSE {})

\* The generation calls of an attempt read and write no shared state, so each
\* is folded into the step of the store call that precedes it: Classify into
\* the claim, Qualify, Extract and Reply into the qualified-lead lookup.  Each
\* operator maps the attempt's local state to the local states it may have
\* after the call.
Down(r, site, failed) == IF failed THEN r.down \cup {site} ELSE r.down

\* mutant of Classify: the lead branch is taken whatever isLead is
ClassifyNoBranch(r) ==
    { LET c == classifyMessage(resp) IN
      IF c = Unavailable THEN [r EXCEPT !.pc = "release"]
      ELSE [r EXCEPT !.isLead = c.isLead, !.intent = c.intent,
                     !.calls = r.calls \cup {"classify"},
                     !.down = Down(r, "classify", resp = Unavailable),
                     !.pc = "readLead"]
      : resp \in ClassifyResponses }

\* Reading a property of a call-site result that is null raises inside the
\* try block: the attempt goes to its catch handler.
\* const classification = await classifyMessage(message.body)
Classify(r) ==
    { LET c == classifyMessage(resp) IN
      IF c = Unavailable THEN [r EXCEPT !.pc = "release"]
      ELSE [r EXCEPT !.isLead = c.isLead, !.intent = c.intent,
                     !.calls = r.calls \cup {"classify"},
                     !.down = Down(r, "classify", resp = Unavailable),
                     !.pc = IF c.isLead THEN "readLead" ELSE "markNotLead"]
      : resp \in ClassifyResponses }

NeedsExtract(q, n, e) == q /\ (n = NULL \/ e = NULL)

\* mutant of Qualify: the sender is qualified again on every message
QualifyAgain(r) ==
    { LET q == qualifyLead(resp) IN
      [r EXCEPT !.isQualified = q.isQualified, !.priority = q.priority,
                !.calls = r.calls \cup {"qualify"},
                !.down = Down(r, "qualify", resp = Unavailable)]
      : resp \in QualifyResponses }

\* const qual = await qualifyLead(message.body, totalMessages, intent),
\* only when no qualified lead was found
Qualify(r) ==
    IF r.qlRef # 0 THEN {r}
    ELSE { LET q == qualifyLead(resp) IN
           IF q = Unavailable THEN [r EXCEPT !.pc = "release"]
           ELSE [r EXCEPT !.isQualified = q.isQualified, !.priority = q.priority,
                          !.calls = r.calls \cup {"qualify"},
                          !.down = Down(r, "qualify", resp = Unavailable)]
           : resp \in QualifyResponses }

\* currentLeadData.name = currentLeadData.name || extracted.name (email alike)
Extract(r) ==
    IF r.pc = "release" \/ ~NeedsExtract(r.isQualified, r.name, r.email) THEN {r}
    ELSE { LET x == extractData(resp) IN
           IF x = Unavailable THEN [r EXCEPT !.pc = "release"]
           ELSE [r EXCEPT !.name = OrElse(r.name, x.name), !.email = OrElse(r.email, x.email),
                          !.calls = r.calls \cup {"extract"},
                          !.down = Down(r, "extract", resp = Unavailable)]
           : resp \in ExtractResponses }

\* const systemPrompt = isQualified ? (missingName || missingEmail ? ... )
systemPrompt(isQualified, missingName, missingEmail) ==
    IF isQualified
    THEN (IF missingName \/ missingEmail
          THEN "Ask for missing info (name/email). Keep reply <= 3 sentences."
          ELSE "Confirm info received. Reply in 1 sentence.")
    ELSE "Answer query concisely, offer call. <=5 sentences."

\* const autoReply = await generateReply(...)
Reply(r) ==
    IF r.pc = "release" THEN {r}
    ELSE { [r EXCEPT !.autoReply = generateReply(text),
                     !.prompt = systemPrompt(r.isQualified, r.name = NULL, r.email = NULL),
                     !.calls = r.calls \cup {"reply"},
                     !.down = Down(r, "reply", text = ""),
                     !.pc = IF r.isQualified THEN "saveQualified" ELSE "saveLead"]
           : text \in ReplyResponses }

QualifyExtractReply(r) == UNION { UNION { Reply(r2) : r2 \in Extract(r1) } : r1 \in Qualify(r) }

\* if (message.processing) return; await doc.ref.update({ processing: true });
\* then the classification
Claim(t, F) ==
    /\ program = "poll"
    /\ NextQueued(t)
    /\ IF tasks[t].snapProcessing
       THEN /\ tasks' = [tasks EXCEPT ![t] = DoneTask]
            /\ UNCHANGED <<raw, faults>>
       ELSE \E ok \in F :
            Charge(ok) /\
            IF ok
            THEN /\ raw' = [raw EXCEPT ![tasks[t].msg].processing = TRUE]
                 /\ \E r \in Classify([tasks[t] EXCEPT !.claimed = TRUE]) :
                        tasks' = [tasks EXCEPT ![t] = r]
            ELSE /\ tasks' = [tasks EXCEPT ![t] = DoneTask]
                 /\ UNCHANGED raw
    /\ UNCHANGED <<client, program, apiKey, leads, qleads>>

\* existingLeadSnap, isReturningClient, totalMessages
ReadLead(t, F) ==
    /\ tasks[t].pc = "readLead"
    /\ \E ok \in F :
        Charge(ok) /\
        IF ok
        THEN LET ref == LatestLead(tasks[t].key)
                 cnt == IF ref = 0 THEN 0 ELSE leads[ref].messageCount
             IN tasks' = [tasks EXCEPT ![t].leadRef = ref,
                              ![t].totalMessages = IF ref = 0 THEN 1 ELSE (IF cnt = 0 THEN 1 ELSE cnt) + 1,
                              ![t].pc = "readQualified"]
        ELSE tasks' = [tasks EXCEPT ![t].pc = "release"]
    /\ UNCHANGED <<client, program, apiKey, raw, leads, qleads>>

\* existingQualifiedSnap: an existing qualified lead makes the sender
\* qualified with the stored priority; then qualify, extract and reply
ReadQualified(t, F) ==
    /\ tasks[t].pc = "readQualified"
    /\ \E ok \in F :
        Charge(ok) /\
        IF ok
        THEN \E q \in QualifiedCandidates(tasks[t].key) :
             LET r0 == IF q = 0 THEN tasks[t]
                       ELSE [tasks[t] EXCEPT !.qlRef = q,
                                  !.name = qleads[q].name, !.email = qleads[q].email,
                                  !.isQualified = TRUE,
                                  !.priority = OrElse(qleads[q].priority, "High")]
             IN \E r \in QualifyExtractReply(r0) : tasks' = [tasks EXCEPT ![t] = r]
        ELSE tasks' = [tasks EXCEPT ![t].pc = "release"]
    /\ UNCHANGED <<client, program, apiKey, raw, leads, qleads>>

NewQualified(t) ==
    [key |-> tasks[t].key, name |-> tasks[t].name, email |-> tasks[t].email,
     priority |-> tasks[t].priority, messageCount |-> tasks[t].totalMessages]

\* add the qualified lead, or update name/email/messageCount of the one read
SaveQualified(t, F) ==
    /\ tasks[t].pc = "saveQualified"
    /\ \E ok \in F :
        Charge(ok) /\
        IF ok
        THEN /\ qleads' = IF tasks[t].qlRef = 0
                          THEN Append(qleads, NewQualified(t))
                          ELSE [qleads EXCEPT ![tasks[t].qlRef].name = tasks[t].name,
                                              ![tasks[t].qlRef].email = tasks[t].email,
                                              ![tasks[t].qlRef].messageCount = tasks[t].totalMessages]
             /\ tasks' = [tasks EXCEPT ![t].pc = "saveLead"]
        ELSE /\ tasks' = [tasks EXCEPT ![t].pc = "release"]
             /\ UNCHANGED qleads
    /\ UNCHANGED <<client, program, apiKey, raw, leads>>

\* mutant of NewLead: the count of the lead does not include this message
NewLeadUncounted(t) == [key |-> tasks[t].key, intent |-> tasks[t].intent, messageCount |-> tasks[t].totalMessages - 1]

NewLead(t) == [key |-> tasks[t].key, intent |-> tasks[t].intent, messageCount |-> tasks[t].totalMessages]

\* add the general lead when the sender had none, else update the one read
SaveLead(t, F) ==
    /\ tasks[t].pc = "saveLead"
    /\ \E ok \in F :
        Charge(ok) /\
        IF ok
        THEN /\ leads' = IF tasks[t].leadRef = 0
                         THEN Append(leads, NewLead(t))
                         ELSE [leads EXCEPT ![tasks[t].leadRef].intent = tasks[t].intent,
                                            ![tasks[t].leadRef].messageCount = tasks[t].totalMessages]
             /\ tasks' = [tasks EXCEPT ![t].pc = "saveRaw"]
        ELSE /\ tasks' = [tasks EXCEPT ![t].pc = "release"]
             /\ UNCHANGED leads
    /\ UNCHANGED <<client, program, apiKey, raw, qleads>>

\* doc.ref.update({ processed: true, isLead, isQualified, priority, ... })
SaveRaw(t, F) ==
    /\ tasks[t].pc = "saveRaw"
    /\ \E ok \in F :
        Charge(ok) /\
        IF ok
        THEN /\ raw' = [raw EXCEPT ![tasks[t].msg] =
                          [@ EXCEPT !.processed = TRUE, !.processing = FALSE, !.hasDerived = TRUE,
                                    !.isLead = tasks[t].isLead, !.isQualified = tasks[t].isQualified,
                                    !.priority = tasks[t].priority, !.autoReplyText = tasks[t].autoReply,
                                    !.messageCount = tasks[t].totalMessages]]
             /\ tasks' = [tasks EXCEPT ![t] = DoneTask]
        ELSE /\ tasks' = [tasks EXCEPT ![t].pc = "release"]
             /\ UNCHANGED raw
    /\ UNCHANGED <<client, program, apiKey, leads, qleads>>

\* not a lead: doc.ref.update({ processed: true, processing: false })
MarkNotLead(t, F) ==
    /\ tasks[t].pc = "markNotLead"
    /\ \E ok \in F :
        Charge(ok) /\
        IF ok
        THEN /\ raw' = [raw EXCEPT ![tasks[t].msg].processed = TRUE, ![tasks[t].msg].processing = FALSE]
             /\ tasks' = [tasks EXCEPT ![t] = DoneTask]
        ELSE /\ tasks' = [tasks EXCEPT ![t].pc = "release"]
             /\ UNCHANGED raw
    /\ UNCHANGED <<client, program, apiKey, leads, qleads>>

\* mutant of Release: the handler resets the flag of every raw message
ReleaseAll(t, F) ==
    /\ tasks[t].pc = "release"
    /\ \E ok \in F :
        Charge(ok) /\
        IF ok
        THEN raw' = [m \in AllMsgs |-> [raw[m] EXCEPT !.processing = FALSE]]
        ELSE UNCHANGED raw
    /\ tasks' = [tasks EXCEPT ![t] = DoneTask]
    /\ UNCHANGED <<client, program, apiKey, leads, qleads>>

\* catch (err) { await doc.ref.update({ processing: false }) }
Release(t, F) ==
    /\ tasks[t].pc = "release"
    /\ \E ok \in F :
        Charge(ok) /\
        IF ok
        THEN raw' = [raw EXCEPT ![tasks[t].msg].processing = FALSE]
        ELSE UNCHANGED raw
    /\ tasks' = [tasks EXCEPT ![t] = DoneTask]
    /\ UNCHANGED <<client, program, apiKey, leads, qleads>>

\* ----------------------------------------- processMessage, decrypt build
\* where(leadKey == key).get() without order or limit; docs[0] is any match
LeadCandidates(key) == IF Matching(leads, key) = {} THEN {0} ELSE Matching(leads, key)

\* (await raw_messages.where(from == leadKey).get()).size
CountFrom(key) == Cardinality({m \in Msgs : raw[m].exists /\ raw[m].userId = key})

\* if (message.processing) return; await doc.ref.update({ processing: true });
\* const decryptedBody = decrypt(...)
ClaimDecrypt(t, F) ==
    /\ program = "decrypt"
    /\ NextQueued(t)
    /\ IF tasks[t].snapProcessing
       THEN /\ tasks' = [tasks EXCEPT ![t] = DoneTask]
            /\ UNCHANGED <<raw, faults>>
       ELSE \E ok \in F :
            Charge(ok) /\
            IF ok
            THEN /\ raw' = [raw EXCEPT ![tasks[t].msg].processing = TRUE]
                 /\ tasks' = [tasks EXCEPT ![t].claimed = TRUE, ![t].pc =
                        IF Falsy(decrypt(raw[tasks[t].msg].payload))
                        THEN "markDecryptFailed" ELSE "countMessages"]
            ELSE /\ tasks' = [tasks EXCEPT ![t] = DoneTask]
                 /\ UNCHANGED raw
    /\ UNCHANGED <<client, program, apiKey, leads, qleads>>

\* decryption failed: mark processed and exit; the update is outside the try
MarkDecryptFailed(t, F) ==
    /\ tasks[t].pc = "markDecryptFailed"
    /\ \E ok \in F :
        Charge(ok) /\
        IF ok
        THEN raw' = [raw EXCEPT ![tasks[t].msg].processed = TRUE,
                                ![tasks[t].msg].processing = FALSE,
                                ![tasks[t].msg].autoReplyText = DecryptErrorReply]
        ELSE UNCHANGED raw
    /\ tasks' = [tasks EXCEPT ![t] = DoneTask]
    /\ UNCHANGED <<client, program, apiKey, leads, qleads>>

\* the count query is outside the try: when it rejects, the attempt ends
\* there.  Then generateAIResponse(decryptedBody) and the qualification rule
CountMessages(t, F) ==
    /\ tasks[t].pc = "countMessages"
    /\ \E ok \in F :
        Charge(ok) /\
        IF ok
        THEN LET ai == generateAIResponse(decrypt(raw[tasks[t].msg].payload), apiKey)
                 q == ai.intent = "quote_request"
             IN tasks' = [tasks EXCEPT ![t].totalMessages = CountFrom(tasks[t].key),
                              ![t].isLead = ai.isLead, ![t].intent = ai.intent,
                              ![t].autoReply = ai.text, ![t].isQualified = q,
                              ![t].priority = IF q THEN "1" ELSE "2",
                              ![t].pc = "readLeadDecrypt"]
        ELSE tasks' = [tasks EXCEPT ![t] = DoneTask]
    /\ UNCHANGED <<client, program, apiKey, raw, leads, qleads>>

\* const existingLeadSnap = await leads.where(leadKey == leadKey).get()
ReadLeadDecrypt(t, F) ==
    /\ tasks[t].pc = "readLeadDecrypt"
    /\ \E ok \in F :
        Charge(ok) /\
        IF ok
        THEN \E ref \in LeadCandidates(tasks[t].key) :
             tasks' = [tasks EXCEPT ![t].leadRef = ref,
                           ![t].pc = IF tasks[t].isLead THEN "saveRawDecrypt" ELSE "markNotLead"]
        ELSE tasks' = [tasks EXCEPT ![t].pc = "release"]
    /\ UNCHANGED <<client, program, apiKey, raw, leads, qleads>>

\* the raw message is marked processed before the lead document is written
SaveRawDecrypt(t, F) ==
    /\ tasks[t].pc = "saveRawDecrypt"
    /\ \E ok \in F :
        Charge(ok) /\
        IF ok
        THEN /\ raw' = [raw EXCEPT ![tasks[t].msg] =
                          [@ EXCEPT !.processed = TRUE, !.processing = FALSE, !.hasDerived = TRUE,
                                    !.isLead = tasks[t].isLead, !.isQualified = tasks[t].isQualified,
                                    !.priority = tasks[t].priority, !.autoReplyText = tasks[t].autoReply,
                                    !.messageCount = tasks[t].totalMessages]]
             /\ tasks' = [tasks EXCEPT ![t].pc = "saveLeadDecrypt"]
        ELSE /\ tasks' = [tasks EXCEPT ![t].pc = "release"]
             /\ UNCHANGED raw
    /\ UNCHANGED <<client, program, apiKey, leads, qleads>>

SaveLeadDecrypt(t, F) ==
    /\ tasks[t].pc = "saveLeadDecrypt"
    /\ \E ok \in F :
        Charge(ok) /\
        IF ok
        THEN /\ leads' = IF tasks[t].leadRef = 0
                         THEN Append(leads, NewLead(t))
                         ELSE [leads EXCEPT ![tasks[t].leadRef].intent = tasks[t].intent,
                                            ![tasks[t].leadRef].messageCount = tasks[t].totalMessages]
             /\ tasks' = [tasks EXCEPT ![t] = DoneTask]
        ELSE /\ tasks' = [tasks EXCEPT ![t].pc = "release"]
             /\ UNCHANGED leads
    /\ UNCHANGED <<client, program, apiKey, raw, qleads>>

\* ------------------------------------- onSnapshot build (index.js 243-757)
\* The listener on where(processed == false) hands every document to the
\* handler once, as an "added" change; the handler is an async callback of
\* forEach with no try block, no claim and no worker pool.
ApiKeyMissingReply == "Reply failed: API Key Missing."
HighVolumeReply == "Thank you for your message. We are currently experiencing high volume but will reply to your inquiry shortly!"
ClassificationErrors == {"Classification Error", "API Error", "API Key Missing", "No Candidate", "No JSON Part"}

callGeminiForClassification(resp, key) ==
    IF ~key THEN [isLead |-> FALSE, intent |-> "API Key Missing"]
    ELSE IF resp = Unavailable THEN [isLead |-> FALSE, intent |-> "API Error"]
    ELSE resp

callGeminiForQualification(resp) ==
    IF resp = Unavailable THEN [isQualified |-> FALSE, priority |-> "Low"] ELSE resp

callGeminiForExtraction(resp, key) ==
    IF ~key \/ resp = Unavailable THEN [name |-> NULL, email |-> NULL] ELSE resp

\* the instruction callGeminiForReply selects
replyInstruction(isReturningClient, isQualified, missingName, missingEmail) ==
    IF isQualified /\ (missingName \/ missingEmail)
    THEN (IF missingName /\ missingEmail THEN "collect Full Name and Email Address"
          ELSE IF missingName THEN "ask ONLY for Full Name"
          ELSE "ask ONLY for Email Address")
    ELSE IF isQualified /\ ~missingName /\ ~missingEmail THEN "congratulate, details saved"
    ELSE IF isReturningClient THEN "answer and offer call, contacted before"
    ELSE "answer and offer call"

callGeminiForReply(text, key) ==
    IF ~key THEN ApiKeyMissingReply
    ELSE IF text = "" THEN HighVolumeReply
    ELSE text

\* a handler that has ended keeps the document it was handed: the listener
\* does not hand it over again
SnapDone(r) == [DoneTask EXCEPT !.msg = r.msg]

Delivered(m) == \E t \in AllTasks : tasks[t].msg = m

\* Step 1: classification, awaited first of all.  The listener reports the
\* documents in the order they were created.  T: the attempts the
\* specification has room for
SnapshotAddedIn(m, T) ==
    /\ program = "snapshot"
    /\ raw[m].exists /\ ~raw[m].processed /\ ~Delivered(m)
    /\ \A k \in AllMsgs : k < m => Delivered(k)
    /\ \E x \in T : tasks[x].pc = "none"
    /\ LET t == CHOOSE x \in T : tasks[x].pc = "none" /\ \A y \in T : tasks[y].pc = "none" => x <= y IN
       \E resp \in ClassifyResponses :
          LET c == callGeminiForClassification(resp, apiKey) IN
          tasks' = [tasks EXCEPT ![t] =
                       [NoTask EXCEPT !.msg = m, !.key = UserKey(m),
                                      !.isLead = c.isLead, !.intent = c.intent,
                                      !.totalMessages = 0, !.calls = {"classify"},
                                      !.down = Down(NoTask, "classify", ~apiKey \/ resp = Unavailable),
                                      !.pc = IF c.isLead THEN "snapReadLead" ELSE "snapSaveRaw"]]
    /\ UNCHANGED <<client, program, apiKey, raw, leads, qleads, faults>>

SnapshotAdded(m) == SnapshotAddedIn(m, TaskIds)

\* Step 2: existingLeadSnapshot, isReturningClient, totalMessagesFromClient
SnapReadLead(t, F) ==
    /\ tasks[t].pc = "snapReadLead"
    /\ \E ok \in F :
        Charge(ok) /\
        IF ok
        THEN LET ref == LatestLead(tasks[t].key)
                 cnt == IF ref = 0 THEN 0 ELSE leads[ref].messageCount
             IN tasks' = [tasks EXCEPT ![t].leadRef = ref,
                              ![t].totalMessages = (IF ref = 0 THEN 0 ELSE (IF cnt = 0 THEN 1 ELSE cnt)) + 1,
                              ![t].pc = "snapReadQualified"]
        ELSE tasks' = [tasks EXCEPT ![t] = SnapDone(tasks[t])]
    /\ UNCHANGED <<client, program, apiKey, raw, leads, qleads>>

\* Step 3: qualification, only for a lead that is not already qualified
SnapQualify(r) ==
    IF r.isQualified THEN {r}
    ELSE { LET q == callGeminiForQualification(resp) IN
           [r EXCEPT !.isQualified = q.isQualified, !.priority = q.priority,
                     !.calls = r.calls \cup {"qualify"},
                     !.down = Down(r, "qualify", resp = Unavailable)]
           : resp \in QualifyResponses }

\* Step 4: extraction for every qualified sender; name and email hold
\* updateQualifiedData (NULL: the key is not set)
SnapExtract(r) ==
    IF ~r.isQualified THEN {r}
    ELSE { LET x == callGeminiForExtraction(resp, apiKey)
               curName == IF r.qlRef = 0 THEN NULL ELSE qleads[r.qlRef].name
               curEmail == IF r.qlRef = 0 THEN NULL ELSE qleads[r.qlRef].email
               updName == IF r.qlRef # 0 /\ curName = NULL THEN x.name ELSE NULL
               updEmail == IF r.qlRef # 0 /\ curEmail = NULL THEN x.email ELSE NULL
           IN [r EXCEPT !.name = updName, !.email = updEmail,
                        !.missingName =
                            IF r.qlRef # 0 THEN curName = NULL /\ updName = NULL
                            ELSE IF x.name # NULL \/ x.email # NULL THEN x.name = NULL
                            ELSE TRUE,
                        !.missingEmail =
                            IF r.qlRef # 0 THEN curEmail = NULL /\ updEmail = NULL
                            ELSE IF x.name # NULL \/ x.email # NULL THEN x.email = NULL
                            ELSE TRUE,
                        !.calls = r.calls \cup {"extract"},
                        !.down = Down(r, "extract", resp = Unavailable),
                        !.pc = IF updName # NULL \/ updEmail # NULL
                               THEN "snapUpdateQualified" ELSE "snapReply"]
           : resp \in ExtractResponses }

\* Steps 6 and 7 up to the next store call.  The object literal of the
\* qualified_leads.add reads extractedData, a const of the block of Step 4:
\* evaluating it raises a ReferenceError before add is called.
SnapReply(r) ==
    IF r.pc = "snapUpdateQualified" THEN {r}
    ELSE IF r.intent \in ClassificationErrors THEN {[r EXCEPT !.pc = "snapSaveRaw"]}
    ELSE { LET r2 == [r EXCEPT !.autoReply = callGeminiForReply(text, apiKey),
                               !.prompt = IF apiKey
                                          THEN replyInstruction(r.leadRef # 0, r.isQualified,
                                                                r.missingName, r.missingEmail)
                                          ELSE NULL,
                               !.calls = r.calls \cup {"reply"},
                               !.down = Down(r, "reply", text = "")]
           IN IF r.isQualified /\ r.qlRef = 0 THEN SnapDone(r2)
              ELSE [r2 EXCEPT !.pc = "snapSaveLead"]
           : text \in ReplyResponses }

SnapQualifyExtractReply(r) ==
    UNION { UNION { SnapReply(r2) : r2 \in SnapExtract([r1 EXCEPT !.pc = "snapReply"]) } : r1 \in SnapQualify(r) }

\* existingQualifiedLead: a record found makes the sender qualified
SnapReadQualified(t, F) ==
    /\ tasks[t].pc = "snapReadQualified"
    /\ \E ok \in F :
        Charge(ok) /\
        IF ok
        THEN \E q \in QualifiedCandidates(tasks[t].key) :
             LET r0 == IF q = 0 THEN tasks[t]
                       ELSE [tasks[t] EXCEPT !.qlRef = q, !.isQualified = TRUE,
                                  !.priority = OrElse(qleads[q].priority, "High")]
             IN \E r \in SnapQualifyExtractReply(r0) : tasks' = [tasks EXCEPT ![t] = r]
        ELSE tasks' = [tasks EXCEPT ![t] = SnapDone(tasks[t])]
    /\ UNCHANGED <<client, program, apiKey, raw, leads, qleads>>

\* qualifiedLeadRecord.ref.update(updateQualifiedData), then the reply
SnapUpdateQualified(t, F) ==
    /\ tasks[t].pc = "snapUpdateQualified"
    /\ \E ok \in F :
        Charge(ok) /\
        IF ok
        THEN /\ qleads' = [qleads EXCEPT
                    ![tasks[t].qlRef].name = IF tasks[t].name # NULL THEN tasks[t].name ELSE @,
                    ![tasks[t].qlRef].email = IF tasks[t].email # NULL THEN tasks[t].email ELSE @]
             /\ \E r \in SnapReply([tasks[t] EXCEPT !.pc = "snapReply"]) :
                    tasks' = [tasks EXCEPT ![t] = r]
        ELSE /\ tasks' = [tasks EXCEPT ![t] = SnapDone(tasks[t])]
             /\ UNCHANGED qleads
    /\ UNCHANGED <<client, program, apiKey, raw, leads>>

\* leads.add for a new sender, else update of the lead that was read
SnapSaveLead(t, F) ==
    /\ tasks[t].pc = "snapSaveLead"
    /\ \E ok \in F :
        Charge(ok) /\
        IF ok
        THEN /\ leads' = IF tasks[t].leadRef = 0
                         THEN Append(leads, NewLead(t))
                         ELSE [leads EXCEPT ![tasks[t].leadRef].intent = tasks[t].intent,
                                            ![tasks[t].leadRef].messageCount = tasks[t].totalMessages]
             /\ tasks' = [tasks EXCEPT ![t].pc = "snapSaveRaw"]
        ELSE /\ tasks' = [tasks EXCEPT ![t] = SnapDone(tasks[t])]
             /\ UNCHANGED leads
    /\ UNCHANGED <<client, program, apiKey, raw, qleads>>

\* Step 8: raw_messages.doc(docId).update(updateData); autoReplyText is a
\* key of updateData only when a reply was generated
SnapSaveRaw(t, F) ==
    /\ tasks[t].pc = "snapSaveRaw"
    /\ \E ok \in F :
        Charge(ok) /\
        IF ok
        THEN raw' = [raw EXCEPT ![tasks[t].msg] =
                        [@ EXCEPT !.processed = TRUE, !.hasDerived = TRUE,
                                  !.isLead = tasks[t].isLead, !.isQualified = tasks[t].isQualified,
                                  !.priority = tasks[t].priority,
                                  !.autoReplyText = IF tasks[t].autoReply # NULL
                                                    THEN tasks[t].autoReply ELSE @,
                                  !.messageCount = tasks[t].totalMessages]]
        ELSE UNCHANGED raw
    /\ tasks' = [tasks EXCEPT ![t] = SnapDone(tasks[t])]
    /\ UNCHANGED <<client, program, apiKey, leads, qleads>>

onSnapshot(t, F) ==
    \/ SnapReadLead(t, F)
    \/ SnapReadQualified(t, F)
    \/ SnapUpdateQualified(t, F)
    \/ SnapSaveLead(t, F)
    \/ SnapSaveRaw(t, F)

processMessageDecrypt(t, F) ==
    \/ ClaimDecrypt(t, F)
    \/ MarkDecryptFailed(t, F)
    \/ CountMessages(t, F)
    \/ ReadLeadDecrypt(t, F)
    \/ SaveRawDecrypt(t, F)
    \/ SaveLeadDecrypt(t, F)

processMessage(t, F) ==
    \/ Claim(t, F)
    \/ ReadLead(t, F)
    \/ ReadQualified(t, F)
    \/ SaveQualified(t, F)
    \/ SaveLead(t, F)
    \/ SaveRaw(t, F)
    \/ MarkNotLead(t, F)
    \/ Release(t, F)

Next ==
    \/ Produce
    \/ pollMessages(BOOLEAN)
    \/ \E t \in TaskIds : processMessage(t, BOOLEAN)
    \/ \E t \in TaskIds : processMessageDecrypt(t, BOOLEAN)

Spec == Init /\ [][Next]_vars

\* The store never rejects a call: nothing reaches the catch handler, so
\* Release is no step of this specification.
NextStoreOk ==
    \/ Produce
    \/ pollMessages({TRUE})
    \/ \E t \in TaskIds :
        \/ Claim(t, {TRUE})
        \/ ReadLead(t, {TRUE})
        \/ ReadQualified(t, {TRUE})
        \/ SaveQualified(t, {TRUE})
        \/ SaveLead(t, {TRUE})
        \/ SaveRaw(t, {TRUE})
        \/ MarkNotLead(t, {TRUE})
    \/ \E t \in TaskIds : processMessageDecrypt(t, {TRUE})

SpecStoreOk == Init /\ [][NextStoreOk]_vars

\* The poll build with one attempt in flight at a time: an attempt starts
\* only after the previous attempt has ended (by completing or by raising).
InitSeq == Init /\ program = "poll"

ClaimSeq(t) == Running = {} /\ Claim(t, BOOLEAN)

NextSeq ==
    \/ Produce
    \/ pollMessages(BOOLEAN)
    \/ \E t \in TaskIds :
        \/ ClaimSeq(t)
        \/ ReadLead(t, BOOLEAN)
        \/ ReadQualified(t, BOOLEAN)
        \/ SaveQualified(t, BOOLEAN)
        \/ SaveLead(t, BOOLEAN)
        \/ SaveRaw(t, BOOLEAN)
        \/ MarkNotLead(t, BOOLEAN)
        \/ Release(t, BOOLEAN)

SpecSeq == InitSeq /\ [][NextSeq]_vars

\* The decrypt build alone.
InitDecrypt == Init /\ program = "decrypt"

NextDecrypt ==
    \/ Produce
    \/ pollMessages(BOOLEAN)
    \/ \E t \in TaskIds :
        \/ processMessageDecrypt(t, BOOLEAN)
        \/ MarkNotLead(t, BOOLEAN)
        \/ Release(t, BOOLEAN)

SpecDecrypt == InitDecrypt /\ [][NextDecrypt]_vars

\* The onSnapshot build alone; the store is empty or knows sender "u1".
InitSnapshot ==
    /\ program = "snapshot"
    /\ apiKey \in BOOLEAN
    /\ raw = [m \in AllMsgs |-> NoRaw]
    /\ \/ leads = <<>> /\ qleads = <<>>
       \/ /\ leads = <<KnownLead>>
          /\ \E n \in {NULL, "n1"} : qleads = <<KnownQualified(n)>>
    /\ tasks = [t \in AllTasks |-> NoTask]
    /\ faults = -1
    /\ client = NoCall

NextSnapshot ==
    \/ Produce
    \/ \E m \in Msgs : SnapshotAdded(m)
    \/ \E t \in TaskIds : onSnapshot(t, BOOLEAN)

SpecSnapshot == InitSnapshot /\ [][NextSnapshot]_vars

\* The onSnapshot build without an API key, where every document is
\* classified as no lead, with room for BurstSize documents.
InitBurst == InitSnapshot /\ ~apiKey /\ leads = <<>>

NextBurst ==
    \/ ProduceIn(AllMsgs)
    \/ \E m \in AllMsgs : SnapshotAddedIn(m, AllTasks)
    \/ \E t \in AllTasks : SnapSaveRaw(t, BOOLEAN)

SpecBurst == InitBurst /\ [][NextBurst]_vars

\* p-limit takes the next queued function when a running one settles: the
\* slot of an attempt that has ended is free again
Reap(t) ==
    /\ tasks[t].pc = "done"
    /\ tasks' = [tasks EXCEPT ![t] = NoTask]
    /\ UNCHANGED <<client, program, apiKey, raw, leads, qleads, faults>>

\* The store rejects at most MaxFaults calls and then no more; the timer
\* runs a poll every two seconds, every started attempt runs on, and a slot
\* whose attempt ended is handed on.  The poll build runs without an API key
\* here: callGeminiAPI returns null at once, classifyMessage falls back to
\* isLead = false, and an attempt is the claim followed by the non-lead
\* update or by the catch handler.
InitRetry ==
    /\ InitStore
    /\ faults \in 0..MaxFaults
    /\ program = "poll" => (~apiKey /\ leads = <<>>)

NextRetry ==
    \/ Produce
    \/ pollMessages(BOOLEAN)
    \/ \E t \in TaskIds :
        \/ Claim(t, BOOLEAN)
        \/ MarkNotLead(t, BOOLEAN)
        \/ Release(t, BOOLEAN)
        \/ processMessageDecrypt(t, BOOLEAN)
        \/ Reap(t)

FairRetry ==
    /\ WF_vars(pollMessages(BOOLEAN))
    /\ \A t \in TaskIds :
        /\ WF_vars(processMessage(t, BOOLEAN) \/ processMessageDecrypt(t, BOOLEAN))
        /\ WF_vars(Reap(t))

SpecRetry == InitRetry /\ [][NextRetry]_vars /\ FairRetry

\* The process stops and is started again: the queue of p-limit and every
\* attempt in memory are gone, the store keeps what was written.
Crash ==
    /\ faults > 0
    /\ \E t \in TaskIds : tasks[t].pc # "none"
    /\ faults' = faults - 1
    /\ tasks' = [t \in AllTasks |-> NoTask]
    /\ UNCHANGED <<client, program, apiKey, raw, leads, qleads>>

\* The poll build (without an API key, as in InitRetry) with a store that
\* rejects nothing and a process that stops at most MaxFaults times.
InitCrash == InitRetry /\ program = "poll"

NextCrash ==
    \/ Produce
    \/ pollMessages({TRUE})
    \/ Crash
    \/ \E t \in TaskIds :
        \/ Claim(t, {TRUE})
        \/ MarkNotLead(t, {TRUE})
        \/ Reap(t)

FairCrash ==
    /\ WF_vars(pollMessages({TRUE}))
    /\ \A t \in TaskIds :
        /\ WF_vars(Claim(t, {TRUE}) \/ MarkNotLead(t, {TRUE}))
        /\ WF_vars(Reap(t))

SpecCrash == InitCrash /\ [][NextCrash]_vars /\ FairCrash

\* One call of one call-site of the poll build, for every course the
\* requests of the call can take.
Feeds == [1..MaxRequests -> RequestOutcomes]

InitClient ==
    /\ program = "poll"
    /\ apiKey \in BOOLEAN
    /\ raw = [m \in AllMsgs |-> NoRaw]
    /\ leads = <<>> /\ qleads = <<>>
    /\ tasks = [t \in AllTasks |-> NoTask]
    /\ faults = -1
    /\ \E site \in CallSites, f \in Feeds : client = [NoCall EXCEPT !.site = site, !.feed = f]

NextClient ==
    \/ callGeminiAPI
    \/ retry
    \/ delay
    \/ CallSiteDefault
    \/ generateReplyCall

SpecClient == InitClient /\ [][NextClient]_vars

\* ------------------------------------------------------------------ claims
PastClaim(t) == tasks[t].pc \notin {"none", "queued", "done"}

\* the attempt t ends in this step, having been at one of the positions pcs
EndsAt(t, pcs) == tasks[t].pc \in pcs /\ tasks'[t].pc = "done"

AtMostOnePerSender(coll) ==
    \A i, j \in 1..Len(coll) : coll[i].key = coll[j].key => i = j

KnownFieldsKept ==
    \A i \in 1..Len(qleads) :
        /\ qleads[i].name # NULL => qleads'[i].name = qleads[i].name
        /\ qleads[i].email # NULL => qleads'[i].email = qleads[i].email

\* C1: claim exclusivity. No two attempts are past the Claim step for the
\* same raw message at the same time.
ClaimExclusivity ==
    \A t1, t2 \in TaskIds :
        (t1 # t2 /\ PastClaim(t1) /\ PastClaim(t2)) => tasks[t1].msg # tasks[t2].msg

\* C2: release on failure. An attempt that raised after the Claim step ends
\* with the raw message persisted as processing = false and processed = false.
\* (An attempt that ends at the count query ended because the query raised;
\* an attempt whose release update itself was rejected is left out.)
ReleaseOnFailure ==
    [][\A t \in TaskIds :
        /\ EndsAt(t, {"countMessages"}) =>
              ~raw'[tasks[t].msg].processing /\ ~raw'[tasks[t].msg].processed
        /\ (EndsAt(t, {"release"}) /\ ~raw'[tasks[t].msg].processing) =>
              ~raw'[tasks[t].msg].processed]_vars

\* C3: idempotent re-processing. When attempts run one after the other, also
\* on a message whose earlier attempt was interrupted anywhere between the
\* claim and the final update, no sender ever has two lead or two qualified
\* lead documents, and a name or email stored on a qualified lead is never
\* changed by a later attempt.
IdempotentReprocessing ==
    /\ [](AtMostOnePerSender(leads) /\ AtMostOnePerSender(qleads))
    /\ [][KnownFieldsKept]_vars

\* the second attempt on message 1, whose first attempt updated the lead of
\* the known sender and then raised, is about to write the raw message
ReprocessedAfterInterrupt ==
    /\ program = "poll"
    /\ ~raw[2].exists /\ raw[1].exists /\ ~raw[1].processed
    /\ tasks[1].pc = "done"
    /\ tasks[2].pc = "saveRaw" /\ tasks[2].msg = 1
    /\ tasks[2].leadRef # 0 /\ tasks[2].qlRef # 0
    /\ tasks[2].totalMessages = 3
    /\ Len(leads) = 1 /\ Len(qleads) = 1
    /\ qleads[1].name = "n1" /\ qleads[1].email = "e1"

\* C4: uniqueness. In every reachable state there is at most one lead and at
\* most one qualified lead document per sender key.
UniquenessInvariant ==
    /\ AtMostOnePerSender(leads)
    /\ AtMostOnePerSender(qleads)

PersistedQualified(m) == raw[m].processed /\ raw[m].hasDerived /\ raw[m].isQualified

\* the update that writes the derived fields of message m happens in this step
FinalUpdate(m) ==
    \E t \in TaskIds :
        /\ tasks[t].msg = m
        /\ \/ tasks[t].pc = "saveRaw" /\ tasks'[t].pc = "done"
           \/ tasks[t].pc = "saveRawDecrypt" /\ tasks'[t].pc = "saveLeadDecrypt"

\* C5: monotonic qualification. Once a raw message of a sender is persisted
\* with isQualified = true, no later final update of a raw message of that
\* sender persists isQualified = false.
MonotonicQualification ==
    [][\A m1, m2 \in Msgs :
        (raw[m1].exists /\ raw[m2].exists /\ UserKey(m1) = UserKey(m2)
            /\ PersistedQualified(m1) /\ FinalUpdate(m2))
        => raw'[m2].isQualified]_vars

\* C6: monotonic fill. A name or email stored on a qualified lead is never
\* set to null nor replaced by a later write.
MonotonicFill ==
    [][\A i \in 1..Len(qleads) :
        /\ qleads[i].name # NULL => qleads'[i].name = qleads[i].name
        /\ qleads[i].email # NULL => qleads'[i].email = qleads[i].email]_vars

NeverRaises == \A t \in TaskIds : tasks[t].pc # "release"

FallbackUsed ==
    \A t \in TaskIds :
        LET r == tasks[t]
            r2 == tasks'[t]
            m == tasks[t].msg
        IN /\ "classify" \in r2.down =>
                ~r2.isLead /\ r2.intent = "Unknown" /\ r2.pc = "markNotLead"
           /\ EndsAt(t, {"markNotLead"}) => raw'[m].processed /\ ~raw'[m].processing
           /\ EndsAt(t, {"saveRaw"}) =>
                /\ raw'[m].processed /\ ~raw'[m].processing
                /\ "qualify" \in r.down => ~raw'[m].isQualified /\ raw'[m].priority = "Low"
                /\ "reply" \in r.down => raw'[m].autoReplyText = CourtesyReply
           /\ (r.pc = "readQualified" /\ "extract" \in r2.down) =>
                /\ r2.name = IF r2.qlRef = 0 THEN NULL ELSE qleads[r2.qlRef].name
                /\ r2.email = IF r2.qlRef = 0 THEN NULL ELSE qleads[r2.qlRef].email
           /\ (r.pc = "saveQualified" /\ r2.pc = "saveLead" /\ r.qlRef = 0 /\ "extract" \in r.down) =>
                /\ Len(qleads') = Len(qleads) + 1
                /\ qleads'[Len(qleads')].name = NULL
                /\ qleads'[Len(qleads')].email = NULL

\* C7: fallback totality. While the store succeeds, an attempt never raises
\* whatever the generation service answers: a call-site whose generation call
\* is Unavailable uses its fallback ({isLead: false}, {isQualified: false,
\* priority: Low}, {name: null, email: null}, the courtesy text), and the
\* attempt ends with processed = true, processing = false.
FallbackTotality ==
    /\ []NeverRaises
    /\ [][FallbackUsed]_vars

\* an attempt whose qualify and reply calls were both Unavailable is about to
\* write the raw message
QualifyAndReplyUnavailable ==
    \E t \in TaskIds : tasks[t].pc = "saveRaw" /\ tasks[t].down = {"qualify", "reply"}

BadTag(m) == program = "decrypt" /\ raw[m].exists /\ ~raw[m].payload.tagOk

\* C8: terminal decryption failure. An attempt on a message whose auth tag
\* does not match makes no generation call and writes no lead or qualified
\* lead; its update, when the store applies it, persists processed = true,
\* processing = false and the decryption-error text; once processed, the
\* message stays processed and no later poll selects it.
TerminalDecryptFailure ==
    /\ [](\A t \in TaskIds : (PastClaim(t) /\ BadTag(tasks[t].msg)) =>
            tasks[t].pc = "markDecryptFailed" /\ tasks[t].autoReply = NULL)
    /\ [][\A t \in TaskIds :
            LET m == tasks[t].msg IN
            (tasks[t].pc \notin {"none", "done"} /\ BadTag(m) /\ tasks'[t] # tasks[t]) =>
                /\ leads' = leads /\ qleads' = qleads
                /\ tasks[t].pc = "markDecryptFailed" =>
                      \/ raw'[m] = raw[m]
                      \/ /\ raw'[m].processed /\ ~raw'[m].processing
                         /\ raw'[m].autoReplyText = DecryptErrorReply]_vars
    /\ [][\A m \in Msgs : (BadTag(m) /\ raw[m].processed) =>
            /\ raw'[m].processed
            /\ \A t \in TaskIds :
                 (tasks[t].pc = "none" /\ tasks'[t].pc = "queued") => tasks'[t].msg # m]_vars

DecryptFailurePersisted ==
    \E m \in Msgs :
        /\ BadTag(m)
        /\ raw[m].processed /\ ~raw[m].processing
        /\ raw[m].autoReplyText = DecryptErrorReply
        /\ ~raw[m].hasDerived
        /\ leads = <<>>

LeadWritePositions == {"saveQualified", "saveLead", "saveRaw", "saveRawDecrypt", "saveLeadDecrypt"}

\* C9: non-lead path. An attempt whose classification is isLead = false never
\* reaches a write of the lead or qualified-lead collection; its update of the
\* raw message persists processed = true, processing = false and leaves both
\* collections unchanged.
NonLeadPath ==
    /\ [](\A t \in TaskIds : tasks[t].pc \in LeadWritePositions => tasks[t].isLead)
    /\ [][\A t \in TaskIds :
            (tasks[t].pc = "markNotLead" /\ tasks'[t] # tasks[t]) =>
                /\ leads' = leads /\ qleads' = qleads
                /\ tasks'[t].pc = "done" =>
                      raw'[tasks[t].msg].processed /\ ~raw'[tasks[t].msg].processing]_vars

NonLeadProcessed ==
    /\ program = "poll"
    /\ leads = <<>> /\ qleads = <<>>
    /\ \E m \in Msgs :
        raw[m].exists /\ raw[m].processed /\ ~raw[m].processing /\ ~raw[m].hasDerived

\* C10: exactly-once-effective processing. Once a raw message is persisted
\* with processed = true, no attempt on that message changes the raw message,
\* the leads or the qualified leads.
ExactlyOnceEffective ==
    [][\A m \in Msgs : raw[m].processed =>
        /\ raw'[m] = raw[m]
        /\ \A t \in TaskIds :
             (tasks[t].msg = m /\ tasks'[t] # tasks[t]) =>
                 leads' = leads /\ qleads' = qleads]_vars

\* C11: retry liveness. When the store rejects only finitely many calls and
\* polls and attempts are scheduled fairly, every raw message that was created
\* is eventually persisted with processed = true and processing = false.
RetryLiveness ==
    \A m \in Msgs : raw[m].exists ~> (raw[m].processed /\ ~raw[m].processing)

\* no attempt on message m is queued or running, and the store holds m
\* claimed and unprocessed
Interrupted(m) ==
    /\ raw[m].exists /\ ~raw[m].processed /\ raw[m].processing
    /\ \A t \in TaskIds : tasks[t].msg # m

\* C12: crash recovery. A message whose attempt was cut off by a stop of the
\* process between the claim and the final update is, once the process runs
\* again and polls fairly, eventually processed.
CrashRecovery ==
    \A m \in Msgs : Interrupted(m) ~> raw[m].processed

\* C13: bounded concurrency. The attempts that have started and not yet
\* finished are never more than the concurrency limit.
BoundedConcurrency ==
    Cardinality({t \in AllTasks : PastClaim(t)}) <= CONCURRENCY_LIMIT

\* Every generation call the attempt r made was Unavailable.  The first call
\* is the classification; when it is Unavailable the attempt takes the
\* non-lead branch and makes no other call.
AllCallsUnavailable(r) == "classify" \in r.down

\* C14: worst-case reply. With the store succeeding, an attempt of the poll
\* build whose generation calls were all Unavailable and that completes the
\* message persists it with the courtesy fallback text as autoReplyText.
WorstCaseReply ==
    [][\A t \in TaskIds :
        (program = "poll" /\ AllCallsUnavailable(tasks[t])
            /\ EndsAt(t, {"markNotLead", "saveRaw"}) /\ raw'[tasks[t].msg].processed)
        => raw'[tasks[t].msg].autoReplyText = CourtesyReply]_vars

\* Low < Medium < High; anything else ranks below Low
Rank(p) ==
    IF p = "High" THEN 3 ELSE IF p = "Medium" THEN 2 ELSE IF p = "Low" THEN 1 ELSE 0

\* C15: priority never degrades. The priority stored on a qualified lead is
\* never changed, and the final update of a raw message of a sender who has a
\* qualified lead persists a priority that is not lower than the stored one.
PriorityNeverDegrades ==
    [][/\ \A i \in 1..Len(qleads) : qleads'[i].priority = qleads[i].priority
       /\ \A m \in Msgs, i \in 1..Len(qleads) :
            (raw[m].exists /\ qleads[i].key = UserKey(m) /\ FinalUpdate(m))
            => Rank(raw'[m].priority) >= Rank(qleads[i].priority)]_vars

\* a step of attempt t in which a store call was rejected or in which the
\* catch handler ran
ErrorStep(t) ==
    /\ tasks'[t] # tasks[t]
    /\ \/ tasks'[t].pc = "release"
       \/ tasks[t].pc = "release"
       \/ tasks'[t].pc = "done" /\ raw' = raw /\ leads' = leads /\ ~tasks[t].snapProcessing

FirstMessage(r) == r.isLead /\ r.leadRef = 0 /\ r.qlRef = 0 /\ ~r.isQualified

\* C17: first-message scenario. An attempt of the poll build on a lead
\* message of a sender without a lead, for which Qualify answers not
\* qualified, selects the instruction for unqualified senders, never reaches
\* the qualified-lead write, adds exactly one lead with messageCount = 1 and
\* persists the raw message with isLead = true, isQualified = false,
\* processed = true, processing = false.
FirstMessageScenario ==
    /\ [](\A t \in TaskIds :
            /\ tasks[t].pc = "saveQualified" => tasks[t].isQualified
            /\ (tasks[t].pc \in {"saveLead", "saveRaw"} /\ FirstMessage(tasks[t])) =>
                  /\ tasks[t].totalMessages = 1
                  /\ tasks[t].prompt = "Answer query concisely, offer call. <=5 sentences.")
    /\ [][\A t \in TaskIds :
            FirstMessage(tasks[t]) =>
                /\ (tasks[t].pc = "saveLead" /\ tasks'[t].pc = "saveRaw") =>
                      /\ leads' = Append(leads, [key |-> tasks[t].key, intent |-> tasks[t].intent,
                                                   messageCount |-> 1])
                      /\ qleads' = qleads
                /\ (tasks[t].pc = "saveRaw" /\ tasks'[t].pc = "done") =>
                      LET m == tasks[t].msg IN
                      /\ raw'[m].isLead /\ ~raw'[m].isQualified
                      /\ raw'[m].processed /\ ~raw'[m].processing
                      /\ leads' = leads /\ qleads' = qleads]_vars

\* the first message of a new sender was processed as an unqualified lead
FirstMessageProcessed ==
    /\ program = "poll"
    /\ raw[1].exists /\ ~raw[2].exists
    /\ raw[1].processed /\ ~raw[1].processing /\ raw[1].isLead /\ ~raw[1].isQualified
    /\ raw[1].messageCount = 1
    /\ leads = <<[key |-> "u1", intent |-> "visa", messageCount |-> 1]>>
    /\ qleads = <<>>

\* a text as its sequence of lines; every reply text of the model is one line
Lines(text) == <<text>>

\* a line holding only the code-fence marker (three backquotes)
FenceMarker == "<code fence>"
BlankLine == ""
DisclaimerLine == "disclaimer"

RECURSIVE DropBlank(_)
DropBlank(ls) == IF ls # <<>> /\ Head(ls) = BlankLine THEN DropBlank(Tail(ls)) ELSE ls

RECURSIVE TrimLines(_)
TrimLines(ls) ==
    IF ls = <<>> THEN <<>>
    ELSE IF Head(ls) = BlankLine THEN TrimLines(Tail(ls))
    ELSE IF ls[Len(ls)] = BlankLine THEN TrimLines(SubSeq(ls, 1, Len(ls) - 1))
    ELSE ls

RECURSIVE CollapseBlank(_)
CollapseBlank(ls) ==
    IF Len(ls) < 3 THEN ls
    ELSE IF ls[1] = BlankLine /\ ls[2] = BlankLine /\ ls[3] = BlankLine THEN <<BlankLine>> \o CollapseBlank(DropBlank(ls))
    ELSE <<Head(ls)>> \o CollapseBlank(Tail(ls))

\* trimmed, code-fence markers stripped, runs of 3+ blank lines collapsed
Sanitize(ls) == CollapseBlank(TrimLines(SelectSeq(ls, LAMBDA l : l # FenceMarker)))

\* C18: reply formatting. The autoReplyText persisted for a lead message is
\* the sanitized generated text, one blank line, then the disclaimer line.
ReplyFormatting ==
    [][\A t \in TaskIds :
        (tasks[t].pc = "saveRaw" /\ tasks'[t].pc = "done" /\ tasks[t].isLead) =>
            Lines(raw'[tasks[t].msg].autoReplyText)
                = Sanitize(Lines(tasks[t].autoReply)) \o <<BlankLine, DisclaimerLine>>]_vars

LeadWrites == {"saveQualified", "saveLead", "saveLeadDecrypt"}

\* C19: persist order. In an attempt on a lead message the raw message gets
\* processed = true only by the last write of the attempt, after its lead
\* writes, and an attempt whose lead write is rejected leaves the raw message
\* with processed = false.
PersistOrder ==
    [][\A t \in TaskIds :
        LET m == tasks[t].msg IN
        (tasks'[t] # tasks[t] /\ tasks[t].isLead /\ m # 0) =>
            /\ (~raw[m].processed /\ raw'[m].processed) => tasks'[t].pc = "done"
            /\ (tasks[t].pc \in LeadWrites /\ tasks'[t].pc = "release") => ~raw'[m].processed]_vars

\* the attempt t is making, or has made, a call other than a write of its own
\* raw message: a decryption, a generation call, a count query or a read or
\* write of the leads and qualified_leads collections
ExternalWork(t) == PastClaim(t) /\ tasks[t].pc # "release"

\* C20: the claim precedes all external work. An attempt that decrypts, calls
\* the generation service or touches the lead collections for a message has
\* written processing = true on that message before.
ClaimPrecedesWork ==
    \A t \in TaskIds : ExternalWork(t) => tasks[t].claimed

\* the queued attempt t is started in this step
Invoked(t) == tasks[t].pc = "queued" /\ tasks'[t] # tasks[t]

\* C21: abort without side effect. processMessage started on a message whose
\* processing flag is true returns at once: no store write, no generation or
\* decryption call, every document unchanged.
AbortWithoutSideEffect ==
    [][\A t \in TaskIds :
        (Invoked(t) /\ raw[tasks[t].msg].processing) =>
            /\ tasks'[t].pc = "done"
            /\ raw' = raw /\ leads' = leads /\ qleads' = qleads]_vars

\* the attempt t completes its qualified-lead lookup in this step
LookedUp(t) ==
    /\ tasks[t].pc \in {"readQualified", "snapReadQualified"}
    /\ tasks'[t].pc \notin {"readQualified", "snapReadQualified", "release", "done"}

\* C22: sticky qualification step. An attempt whose lookup finds a qualified
\* lead of the sender is qualified without a Qualify call and carries the
\* priority stored on that document; Qualify is called exactly when the
\* message is a lead and the lookup finds none.
StickyQualificationStep ==
    /\ [](\A t \in TaskIds : "qualify" \in tasks[t].calls => (tasks[t].isLead /\ tasks[t].qlRef = 0))
    /\ [][\A t \in TaskIds :
            LookedUp(t) =>
                /\ tasks'[t].qlRef # 0 =>
                      /\ tasks'[t].isQualified
                      /\ tasks'[t].priority = qleads[tasks'[t].qlRef].priority
                /\ ("qualify" \in tasks'[t].calls) <=> (tasks[t].isLead /\ tasks'[t].qlRef = 0)]_vars

\* an attempt found the sender's qualified lead and went on to its writes
\* without having qualified the message
QualifiedByLookup ==
    \E t \in TaskIds :
        /\ program = "poll"
        /\ tasks[t].pc = "saveQualified"
        /\ tasks[t].qlRef # 0 /\ tasks[t].isQualified
        /\ tasks[t].priority = "High"
        /\ tasks[t].calls = {"classify", "extract", "reply"}

\* C23: extraction gating. An attempt calls Extract if and only if the
\* message is qualified and the name or the email known for the sender (the
\* fields of the qualified lead its lookup found, if any) is missing.
ExtractionGating ==
    [][\A t \in TaskIds :
        LookedUp(t) =>
            LET q == tasks'[t].qlRef
                knownName == IF q = 0 THEN NULL ELSE qleads[q].name
                knownEmail == IF q = 0 THEN NULL ELSE qleads[q].email
            IN ("extract" \in tasks'[t].calls)
                   <=> (tasks'[t].isQualified /\ (knownName = NULL \/ knownEmail = NULL))]_vars

\* the fields an instruction tells the service to ask the sender for; the
\* instruction of generateReply names both without saying which is missing
Asks(instruction) ==
    CASE instruction = "Ask for missing info (name/email). Keep reply <= 3 sentences." -> {"name", "email"}
      [] instruction = "collect Full Name and Email Address" -> {"name", "email"}
      [] instruction = "ask ONLY for Full Name" -> {"name"}
      [] instruction = "ask ONLY for Email Address" -> {"email"}
      [] OTHER -> {}

Confirmations == {"Confirm info received. Reply in 1 sentence.", "congratulate, details saved"}

DirectAnswers ==
    {"Answer query concisely, offer call. <=5 sentences.",
     "answer and offer call", "answer and offer call, contacted before"}

\* the fields still missing after the extraction of the attempt r
StillMissing(r) ==
    (IF (IF program = "snapshot" THEN r.missingName ELSE r.name = NULL) THEN {"name"} ELSE {})
    \cup (IF (IF program = "snapshot" THEN r.missingEmail ELSE r.email = NULL) THEN {"email"} ELSE {})

\* C24: reply decision table. The instruction an attempt selected asks for
\* exactly the fields still missing after extraction when the sender is
\* qualified and a field is missing, is the confirmation when the sender is
\* qualified and nothing is missing, and is the direct answer with call
\* offer when the sender is not qualified.
ReplyDecisionTable ==
    \A t \in TaskIds :
        (tasks[t].pc \in {"saveQualified", "saveLead", "saveRaw", "snapSaveLead"} /\ tasks[t].prompt # NULL) =>
            LET r == tasks[t] IN
            /\ (r.isQualified /\ StillMissing(r) # {}) => Asks(r.prompt) = StillMissing(r)
            /\ (r.isQualified /\ StillMissing(r) = {}) => r.prompt \in Confirmations
            /\ ~r.isQualified => r.prompt \in DirectAnswers

\* C25: retry budget and backoff. A call of any call-site that has returned
\* made at most three requests, made each further request only after a
\* failed one, waited 500 ms and then 1000 ms between them, and ended on a
\* failed request only when the budget was used up.
RetryBudgetAndBackoff ==
    client.pc \in {"returned", "done"} =>
        LET n == Len(client.requests) IN
        /\ n <= 3
        /\ \A i \in 1..(n - 1) : Throws(client.requests[i])
        /\ client.delays = SubSeq(<<500, 1000>>, 1, n - 1)
        /\ (n > 0 /\ Throws(client.requests[n])) => n = 3

Defaults ==
    {[isLead |-> FALSE, intent |-> "Unknown"], [isQualified |-> FALSE, priority |-> "Low"],
     [name |-> NULL, email |-> NULL]}

\* C26: generation client totality. Whatever the service does, callGeminiAPI
\* returns a parsed value or null and raises nothing, and the call-site hands
\* on its default when the result is null.
ClientTotality ==
    /\ client.pc # "raised"
    /\ (client.pc = "returned" /\ ~apiKey) => client.result = Unavailable
    /\ client.pc = "returned" => client.result \in {Unavailable, ParsedValue(client.site)}
    /\ (client.pc = "done" /\ client.site # "reply") =>
          /\ client.value # Unavailable
          /\ client.result = Unavailable => client.value \in Defaults
          /\ client.result # Unavailable => client.value = client.result
          /\ (client.requests # <<>> /\ client.requests[Len(client.requests)] # "value")
                => client.result = Unavailable

\* the classification call failed three times and classifyMessage handed on
\* its default
ClassifyGaveDefault ==
    /\ client.pc = "done" /\ client.site = "classify"
    /\ client.requests = <<"timeout", "non-success status", "transport error">>
    /\ client.delays = <<500, 1000>>
    /\ client.value = [isLead |-> FALSE, intent |-> "Unknown"]

DerivedFields(r) == <<r.hasDerived, r.isLead, r.isQualified, r.priority, r.autoReplyText>>

\* the attempt t writes derived fields of its raw message in this step
DerivedWrite(t) ==
    \/ tasks[t].pc = "saveRaw" /\ tasks'[t].pc = "done"
    \/ tasks[t].pc = "saveRawDecrypt" /\ tasks'[t].pc = "saveLeadDecrypt"
    \/ tasks[t].pc = "markDecryptFailed" /\ tasks'[t].pc = "done"
          /\ raw'[tasks[t].msg].autoReplyText # raw[tasks[t].msg].autoReplyText

\* C27: derived fields written once. The derived fields of a raw message
\* change only in an update that sets processed = true, and an attempt that
\* writes them finds them never written before.
DerivedWrittenOnce ==
    [][/\ \A m \in Msgs :
            DerivedFields(raw'[m]) # DerivedFields(raw[m]) => (raw[m].exists => raw'[m].processed)
       /\ \A t \in TaskIds :
            DerivedWrite(t) =>
                /\ raw'[tasks[t].msg].processed
                /\ ~raw[tasks[t].msg].hasDerived
                /\ raw[tasks[t].msg].autoReplyText = NULL]_vars

\* C28: idempotent downstream writes. An attempt on a lead message that a
\* completed attempt has already applied (its raw update is persisted)
\* leaves the lead and the qualified-lead documents as they are.
IdempotentDownstreamWrites ==
    [][\A t \in TaskIds :
        (tasks'[t] # tasks[t] /\ tasks[t].pc \in {"saveQualified", "saveLead"}
            /\ raw[tasks[t].msg].hasDerived) =>
                leads' = leads /\ qleads' = qleads]_vars

\* C29: no stranded claim. A raw message persisted with processing = true
\* has an attempt in flight.
NoStrandedClaim ==
    \A m \in Msgs :
        raw[m].processing => \E t \in TaskIds : tasks[t].msg = m /\ PastClaim(t)

\* the attempt t is waiting in the worker pool or running
Admitted(t) == tasks[t].pc \notin {"none", "done"}

\* C30: no duplicate admission. No two attempts that are queued or running
\* at the same time were handed the same raw message.
NoDuplicateAdmission ==
    \A t, u \in TaskIds :
        (t # u /\ Admitted(t) /\ Admitted(u)) => tasks[t].msg # tasks[u].msg

\* messageCount of the lead the lookup of the code returns for key in coll;
\* 0 when the sender has no lead
StoredCount(coll, key) ==
    IF Matching(coll, key) = {} THEN 0 ELSE coll[Max(Matching(coll, key))].messageCount

\* C31: message counter monotonicity. No step lowers the messageCount of a
\* lead, and the lead write of an attempt on a message that no other attempt
\* holds leaves the sender's lead with one more than the count stored before
\* it, so that n processed lead messages give messageCount = n.
MessageCounterMonotonic ==
    [][/\ \A i \in 1..Len(leads) : leads'[i].messageCount >= leads[i].messageCount
       /\ \A t \in TaskIds :
            (tasks[t].pc = "saveLead" /\ tasks'[t].pc = "saveRaw"
                /\ \A u \in TaskIds : u # t => tasks[u].msg # tasks[t].msg) =>
                    StoredCount(leads', tasks[t].key) = StoredCount(leads, tasks[t].key) + 1]_vars

\* C32: the qualified flag is backed by a record. A raw message persisted
\* with isQualified = true has a sender with a qualified-lead document.
QualifiedBackedByRecord ==
    \A m \in Msgs :
        (raw[m].exists /\ raw[m].hasDerived /\ raw[m].isQualified)
            => Matching(qleads, UserKey(m)) # {}
====
